---- MODULE Spec2Model ----
(***************************************************************************)
(* A model of xy_table.py: the session loop that talks to the Lua script   *)
(* over a socket (__main__), the command routines (__gcode__) and the      *)
(* .dxf to GCode converter (dxf_to_gcode).                                 *)
(*                                                                         *)
(* Python strings that the code slices, searches or splits (operator       *)
(* input, telemetry, paths, the feedrate) are sequences of one-character   *)
(* strings.  The lines of a drawing file, which the code only strips,      *)
(* lower-cases, compares and hands to float(), are TLA+ strings.           *)
(* Coordinates are integers in thousandths; a rounded coordinate is a      *)
(* multiple of 10 thousandths.                                             *)
(***************************************************************************)
EXTENDS Integers, Sequences, FiniteSets, TLC

VARIABLES
    pc,         \* where the program is: "recv", "input", "drain", "crashed",
                \* "hung" (session) or "compile", "compiled", "raised" (converter alone)
    pos,        \* the loop's pos: the chunk last received
    posIsList,  \* TRUE when pos holds the list pos.split(','), FALSE when it holds the string
    record,     \* the coordinate/time history
    check,      \* the drain loop's time check; 0 stands for ''
    feedrate,   \* the stored feedrate string
    repeat,     \* the stored delta command, or Zero
    line,       \* what input('>>') returned in this cycle; <<>> before it is read
    sent,       \* the texts handed to conn.send in this cycle (none or one)
    awaiting,   \* a non-empty command was delivered to the peer and no record
                \* with a ' ' field was received since
    errlog,     \* error_log.txt: the kinds of the errors appended
    fs,         \* the files on disk: path -> [kind, body]
    dxf,        \* dxf_to_gcode's locals at the end of its call in this cycle, or NoDxf
    entities,   \* the line entities the drawing under conversion was written from
    now,        \* the local clock
    cycle       \* the number of operator inputs read so far

vars == <<pc, pos, posIsList, record, check, feedrate, repeat, line, sent,
          awaiting, errlog, fs, dxf, entities, now, cycle>>

-----------------------------------------------------------------------------
(* Bounds of the model *)

\* xy_table.py:119 sets qty = 1000; the model runs the same code with a
\* smaller array so that a file can fill it.
qty == 3

\* A run of the model ends with its MaxCycles-th operator input.
MaxCycles == 2

\* The local clock takes the values 1..MaxClock.
MaxClock == 2

-----------------------------------------------------------------------------
(* Python string operations on sequences of characters *)

\* str.lower(), on the letters the inputs of the model use.
LowerChar(c) ==
    CASE c = "A" -> "a" [] c = "C" -> "c" [] c = "D" -> "d" [] c = "E" -> "e"
      [] c = "F" -> "f" [] c = "H" -> "h" [] c = "L" -> "l" [] c = "M" -> "m"
      [] c = "O" -> "o" [] c = "R" -> "r" [] c = "S" -> "s" [] c = "T" -> "t"
      [] c = "V" -> "v" [] c = "G" -> "g" [] c = "X" -> "x" [] c = "Y" -> "y"
      [] OTHER -> c

Lower(s) == [i \in 1..Len(s) |-> LowerChar(s[i])]

\* s[k:]
From(s, k) == IF k >= Len(s) THEN <<>> ELSE SubSeq(s, k + 1, Len(s))

\* s[:k]
Upto(s, k) == IF k >= Len(s) THEN s ELSE SubSeq(s, 1, k)

\* sub in s, for strings
Contains(sub, s) ==
    \E i \in 0..(Len(s) - Len(sub)) : SubSeq(s, i + 1, i + Len(sub)) = sub

\* s.replace(old, new), old non-empty
RECURSIVE Replace(_, _, _)
Replace(s, old, new) ==
    IF Len(s) < Len(old) THEN s
    ELSE IF SubSeq(s, 1, Len(old)) = old
         THEN new \o Replace(From(s, Len(old)), old, new)
         ELSE <<s[1]>> \o Replace(From(s, 1), old, new)

\* s.split(',')
RECURSIVE Split(_)
Split(s) ==
    IF \A i \in 1..Len(s) : s[i] # ","
    THEN <<s>>
    ELSE LET k == CHOOSE i \in 1..Len(s) :
                      s[i] = "," /\ \A j \in 1..(i - 1) : s[j] # ","
         IN  <<SubSeq(s, 1, k - 1)>> \o Split(From(s, k))

Range(f) == {f[i] : i \in DOMAIN f}

-----------------------------------------------------------------------------
(* dxf_to_gcode: the drawing file *)

\* text.strip(), on the padded lines the drawings of the model hold.
Strip(t) ==
    CASE t = " 10" -> "10" [] t = "0 " -> "0" [] t = " EOF" -> "EOF"
      [] t = " 1.0 " -> "1.0"
      [] OTHER -> t

\* text.lower(), on the lines the drawings of the model hold.
LowerLine(t) ==
    CASE t = "AcDbLine" -> "acdbline" [] t = "ACDBLINE" -> "acdbline"
      [] t = "EOF" -> "eof" [] t = "LINE" -> "line"
      [] OTHER -> t

\* The texts float() accepts among the lines of the model, with their values
\* in thousandths.  float() raises ValueError on any other line.
FloatTexts == {"0.0", "1.0", "1.004", "-1.0", "0", "10", "20", "11", "21"}

FloatOf(t) ==
    CASE t = "0.0" -> 0 [] t = "1.0" -> 1000 [] t = "1.004" -> 1004
      [] t = "-1.0" -> 0 - 1000
      [] t = "0" -> 0 [] t = "10" -> 10000 [] t = "20" -> 20000
      [] t = "11" -> 11000 [] t = "21" -> 21000

\* file.readline() followed by text.strip(), after n lines were read: '' at
\* the end of the file.
ReadLine(file, n) == IF n < Len(file) THEN Strip(file[n + 1]) ELSE ""

\* The locals of dxf_to_gcode before its read loop.
ParseInit ==
    [mode |-> "top", n |-> 0, linecount |-> 1, error |-> "",
     xstart |-> [i \in 0..(qty - 1) |-> 0], ystart |-> [i \in 0..(qty - 1) |-> 0],
     xend |-> [i \in 0..(qty - 1) |-> 0], yend |-> [i \in 0..(qty - 1) |-> 0],
     xmax |-> 0, xmin |-> 0, ymax |-> 0, ymin |-> 0]

Max2(a, b) == IF a > b THEN a ELSE b
Min2(a, b) == IF a < b THEN a ELSE b

CapacityMsg == "Error: ran out of dimentioned line arrey. Increase qty value.\n"

\* The test that ends the read loop after an entity.
ArrayFullEarly(linecount) == linecount >= qty - 1
ArrayFull(linecount) == linecount >= qty

\* One pass of the outer read loop outside an entity.
TopStep(file, p) ==
    LET text == ReadLine(file, p.n)
        n1 == Min2(p.n + 1, Len(file))
    IN  IF text = "EOF" THEN [p EXCEPT !.mode = "done", !.n = n1]
        ELSE IF LowerLine(text) = "acdbline" THEN [p EXCEPT !.mode = "entity", !.n = n1]
        ELSE IF p.n >= Len(file) THEN [p EXCEPT !.mode = "hang"]
        ELSE [p EXCEPT !.n = n1]

\* One pass of the inner read loop, inside an AcDbLine entity.
EntityStep(file, p) ==
    LET text == ReadLine(file, p.n)
        value == ReadLine(file, p.n + 1)
        n1 == Min2(p.n + 1, Len(file))
        n2 == Min2(p.n + 2, Len(file))
        lc == p.linecount
    IN  IF text \in {"10", "20", "11", "21"}
        THEN IF value \notin FloatTexts
             THEN [p EXCEPT !.mode = "raise", !.n = n2]
             ELSE CASE text = "10" -> [p EXCEPT !.n = n2, !.xstart[lc] = FloatOf(value)]
                    [] text = "20" -> [p EXCEPT !.n = n2, !.ystart[lc] = FloatOf(value)]
                    [] text = "11" -> [p EXCEPT !.n = n2, !.xend[lc] = FloatOf(value)]
                    [] text = "21" -> [p EXCEPT !.n = n2, !.yend[lc] = FloatOf(value)]
        ELSE IF text = "0"
        THEN LET full == ArrayFull(lc + 1)
             IN  [p EXCEPT
                    !.n = n1,
                    !.ymax = Max2(Max2(@, p.ystart[lc]), p.yend[lc]),
                    !.ymin = Min2(Min2(@, p.ystart[lc]), p.yend[lc]),
                    !.xmax = Max2(Max2(@, p.xstart[lc]), p.xend[lc]),
                    !.xmin = Min2(Min2(@, p.xstart[lc]), p.xend[lc]),
                    !.linecount = lc + 1,
                    !.error = IF full THEN @ \o CapacityMsg ELSE @,
                    !.mode = IF full THEN "done" ELSE "top"]
        ELSE IF p.n >= Len(file) THEN [p EXCEPT !.mode = "hang"]
        ELSE [p EXCEPT !.n = n1]

ParseStep(file, p) ==
    IF p.mode = "top" THEN TopStep(file, p) ELSE EntityStep(file, p)

\* The read loop run to its end: mode "done" (the loop was left), "raise"
\* (float() raised ValueError) or "hang" (the loop reads '' for ever).
RECURSIVE ParseFrom(_, _)
ParseFrom(file, p) ==
    IF p.mode \in {"done", "raise", "hang"} THEN p
    ELSE ParseFrom(file, ParseStep(file, p))

Parse(file) == ParseFrom(file, ParseInit)

-----------------------------------------------------------------------------
(* dxf_to_gcode: the GCode generator *)

\* round(v, 2) of a value in thousandths (no value of the model is a tie).
Round2(v) ==
    IF v >= 0 THEN ((v + 5) \div 10) * 10 ELSE 0 - (((5 - v) \div 10) * 10)

Header == "G90 G17 G21"

\* 'G1 X' + str(round(x, r)) + ' Y' + str(round(y, r)), and ' F' + feedrate
\* when f holds the feedrate; f is <<>> on a line without it.
Move(x, y, f) == [x |-> Round2(x), y |-> Round2(y), f |-> f]

\* The feedrate a draw move carries: ' F' + feedrate while feedflag is 0.
FeedNoteAlways(feedflag, fr) == <<fr>>
FeedNote(feedflag, fr) == IF feedflag = 0 THEN <<fr>> ELSE <<>>

\* The bridge test of the generator for segment i.
NeedsBridgeNever(p, i) == FALSE
NeedsBridgeFirst(p, i) ==
    i = 1 \/ p.xstart[i] # p.xend[i - 1] \/ p.ystart[i] # p.yend[i - 1]
NeedsBridge(p, i) ==
    p.xstart[i] # p.xend[i - 1] \/ p.ystart[i] # p.yend[i - 1]

\* The generator loop from segment i on, with the moves so far and feedflag.
RECURSIVE Generate(_, _, _, _, _)
Generate(p, i, moves, feedflag, fr) ==
    IF i >= p.linecount THEN moves
    ELSE LET bridged == NeedsBridge(p, i)
             m1 == IF bridged
                   THEN Append(moves, Move(p.xstart[i], p.ystart[i], <<>>))
                   ELSE moves
             ff == IF bridged THEN 0 ELSE feedflag
             m2 == Append(m1, Move(p.xend[i], p.yend[i], FeedNote(ff, fr)))
         IN  Generate(p, i + 1, m2, 1, fr)

GCode(p, fr) == [header |-> Header, moves |-> Generate(p, 1, <<>>, 0, fr)]

-----------------------------------------------------------------------------
(* Texts *)

S_600 == <<"6", "0", "0">>
S_home == <<"h", "o", "m", "e">>
S_absolute == <<"a", "b", "s", "o", "l", "u", "t", "e">>
S_pulse_x == <<"p", "u", "l", "s", "e", " ", "x">>
S_pulse_y == <<"p", "u", "l", "s", "e", " ", "y">>
S_scandxf == <<"s", "c", "a", "n", "d", "x", "f">>
S_viewpath == <<"v", "i", "e", "w", "p", "a", "t", "h">>
S_delta == <<"d", "e", "l", "t", "a">>
S_save == <<"s", "a", "v", "e">>
S_clear == <<"c", "l", "e", "a", "r">>
S_feedrate == <<"f", "e", "e", "d", "r", "a", "t", "e">>
S_G90_G0_X0_Y0 == <<"G", "9", "0", " ", "G", "0", " ", "X", "0", " ", "Y", "0">>
S_G90 == <<"G", "9", "0">>
S_G91_G1_X50_F == <<"G", "9", "1", " ", "G", "1", " ", "X", "5", "0", " ", "F">>
S_G91_G1_Y50_F == <<"G", "9", "1", " ", "G", "1", " ", "Y", "5", "0", " ", "F">>
S_G91_G0_ == <<"G", "9", "1", " ", "G", "0", " ">>
NL == <<"\n">>

\* The integer 0 that repeat holds before the first delta.
Zero == <<"int 0">>
S_G0 == <<"G", "0">>
S_dxf == <<".", "d", "x", "f">>
S_txt == <<".", "t", "x", "t">>
InPath == <<"i", "n", ".", "d", "x", "f">>
OutPath == <<"i", "n", ".", "t", "x", "t">>

-----------------------------------------------------------------------------
(* The files on disk *)

Exists(files, path) == path \in DOMAIN files

\* open(path, 'w'); write(body); close()
WriteFile(files, path, kind, body) ==
    [q \in (DOMAIN files) \cup {path} |->
        IF q = path THEN [kind |-> kind, body |-> body] ELSE files[q]]

\* The whole of dxf_to_gcode(openfilepath, savefile, feedrate): the locals at
\* its end and the files it leaves.  The program file is written only when
\* the read loop was left.
\* A file this program wrote (a GCode program, a saved history) holds no line
\* 'EOF' and no line 'AcDbLine': the read loop never leaves it.
DxfLocals(files, openfilepath) ==
    IF files[openfilepath].kind = "dxf"
    THEN Parse(files[openfilepath].body)
    ELSE [ParseInit EXCEPT !.mode = "hang"]

DxfFilesAfter(files, openfilepath, savefile, fr) ==
    LET p == DxfLocals(files, openfilepath)
    IN  IF p.mode = "done"
        THEN WriteFile(files, savefile, "gcode", GCode(p, fr))
        ELSE files

-----------------------------------------------------------------------------
(* Drawings *)

\* The points the segments of the model's drawings join, in thousandths.
\* The last two differ and round to the same text.
Points == {<<0, 0>>, <<1000, 1000>>, <<1000, 1004>>}

\* The segments of the model's drawings: every pair of distinct points.
Entities == {en \in [s : Points, e : Points] : en.s # en.e}

TextOf(v) ==
    CASE v = 0 -> "0.0" [] v = 1000 -> "1.0" [] v = 1004 -> "1.004"
      [] v = 0 - 1000 -> "-1.0"

\* The lines of one LINE entity.  "padded" spells the tag in upper case, pads
\* lines with blanks and carries group codes the converter does not know;
\* "badvalue" carries a Y end value that is no number; "unclosed" lacks the
\* line '0' that closes the entity.
EntityLines(en, variant) ==
    CASE variant = "plain" ->
            <<"AcDbLine", "10", TextOf(en.s[1]), "20", TextOf(en.s[2]),
              "11", TextOf(en.e[1]), "21", TextOf(en.e[2]), "0">>
      [] variant = "padded" ->
            <<"ACDBLINE", " 10", TextOf(en.s[1]), "20", TextOf(en.s[2]), "30", "0.0",
              "11", TextOf(en.e[1]), "21", TextOf(en.e[2]), "31", "0.0", "0 ">>
      [] variant = "badvalue" ->
            <<"AcDbLine", "10", TextOf(en.s[1]), "20", TextOf(en.s[2]),
              "11", TextOf(en.e[1]), "21", "abc", "0">>
      [] variant = "unclosed" ->
            <<"AcDbLine", "10", TextOf(en.s[1]), "20", TextOf(en.s[2]),
              "11", TextOf(en.e[1]), "21", TextOf(en.e[2])>>

RECURSIVE Flatten(_)
Flatten(ss) == IF ss = <<>> THEN <<>> ELSE Head(ss) \o Flatten(Tail(ss))

\* The lines that end a drawing.  A "noeof" drawing lacks the line 'EOF'; an
\* "unclosed" drawing ends inside its last entity.
Trailer(variant) ==
    CASE variant = "padded" -> <<"ENDSEC", "0", " EOF">>
      [] variant = "noeof" -> <<"ENDSEC", "0">>
      [] variant = "unclosed" -> <<>>
      [] OTHER -> <<"ENDSEC", "0", "EOF">>

\* The variant of the lines of entity i of n.  Under "badvalue" and
\* "unclosed" only the last entity differs from a plain one.
EntityVariant(variant, i, n) ==
    IF variant = "noeof" \/ (variant \in {"badvalue", "unclosed"} /\ i < n)
    THEN "plain" ELSE variant

\* A drawing file with the entities es, in order.
Drawing(es, variant) ==
    <<"0", "SECTION", "2", "ENTITIES", "0", "LINE">>
    \o Flatten([i \in 1..Len(es) |->
          EntityLines(es[i], EntityVariant(variant, i, Len(es)))])
    \o Trailer(variant)

Variants == {"plain", "padded", "badvalue", "noeof", "unclosed"}

FeedRates == {S_600, <<>>}

-----------------------------------------------------------------------------
(* The converter alone: dxf_to_gcode applied to one drawing *)

NoDxf == [mode |-> "none"]

InitDxf ==
    /\ entities \in UNION {[1..n -> Entities] : n \in 0..(qty + 1)}
    /\ \E variant \in Variants :
          fs = [q \in {InPath} |-> [kind |-> "dxf", body |-> Drawing(entities, variant)]]
    /\ feedrate \in FeedRates
    /\ pc = "compile"
    /\ pos = <<>> /\ posIsList = FALSE /\ record = <<>> /\ check = 0
    /\ repeat = Zero /\ line = <<>> /\ sent = <<>> /\ awaiting = FALSE
    /\ errlog = <<>> /\ dxf = NoDxf /\ now = 1 /\ cycle = 0

\* dxf_to_gcode(InPath, OutPath, feedrate)
Convert ==
    /\ pc = "compile"
    /\ dxf' = DxfLocals(fs, InPath)
    /\ fs' = DxfFilesAfter(fs, InPath, OutPath, feedrate)
    /\ pc' = CASE dxf'.mode = "done" -> "compiled"
               [] dxf'.mode = "raise" -> "raised"
               [] dxf'.mode = "hang" -> "hung"
    /\ UNCHANGED <<pos, posIsList, record, check, feedrate, repeat, line, sent,
                   awaiting, errlog, entities, now, cycle>>

NextDxf == Convert

SpecDxf == InitDxf /\ [][NextDxf]_vars

-----------------------------------------------------------------------------
(* __gcode__ *)

\* What a call of __gcode__(gcode, feedrate, record) leaves: status "ok"
\* (it returned text), "raise" (an exception left it) or "hang" (it never
\* returned); the errors it passed to error_log; the files; dxf_to_gcode's
\* locals if it was called.
Returned(text, logged, files, locals) ==
    [status |-> "ok", text |-> text, logged |-> logged, files |-> files,
     locals |-> locals]

\* The viewpath routine reads two numbers from every line of the file.  A
\* saved history holds them; a GCode program ('G90 G17 G21') and a drawing
\* ('0', 'SECTION') do not; a missing file cannot be opened.
ViewpathFails(files, path) ==
    \/ ~Exists(files, path)
    \/ files[path].kind # "log"

\* Lines 82-84: open() raised; the error is logged and 'G0' returned.
OpenFailedSilently(files) == Returned(S_G0, <<>>, files, NoDxf)
OpenFailed(files) == Returned(S_G0, <<"FileNotFoundError">>, files, NoDxf)

ScandxfRoutine(gcode, fr, files) ==
    LET path == From(gcode, 8)
        txt == Replace(path, S_dxf, <<>>) \o S_txt
    IN  IF ~Exists(files, path)
        THEN OpenFailed(files)
        ELSE LET p == CHOOSE v \in {DxfLocals(files, path)} : TRUE
             IN  IF p.mode = "done"
                 THEN Returned(txt, <<>>, WriteFile(files, txt, "gcode", GCode(p, fr)), p)
                 ELSE [status |-> p.mode, text |-> <<>>, logged |-> <<>>,
                       files |-> files, locals |-> p]

ViewpathRoutine(gcode, files) ==
    LET path0 == From(gcode, 9)
        path == IF Contains(S_txt, path0) THEN path0 ELSE path0 \o S_txt
    IN  IF ViewpathFails(files, path)
        THEN Returned(S_G0,
                      <<IF Exists(files, path) THEN "ValueError" ELSE "FileNotFoundError">>,
                      files, NoDxf)
        ELSE Returned(gcode, <<>>, files, NoDxf)

Gcode(gcode, fr, files) ==
    LET low == Lower(gcode)
    IN  IF low = S_home THEN Returned(S_G90_G0_X0_Y0, <<>>, files, NoDxf)
        ELSE IF low = S_absolute THEN Returned(S_G90, <<>>, files, NoDxf)
        ELSE IF Contains(S_pulse_x, low)
             THEN Returned(S_G91_G1_X50_F \o From(gcode, 7), <<>>, files, NoDxf)
        ELSE IF Contains(S_pulse_y, low)
             THEN Returned(S_G91_G1_Y50_F \o From(gcode, 7), <<>>, files, NoDxf)
        ELSE IF Contains(S_scandxf, low) THEN ScandxfRoutine(gcode, fr, files)
        ELSE IF Contains(S_viewpath, low) THEN ViewpathRoutine(gcode, files)
        ELSE Returned(gcode, <<>>, files, NoDxf)

-----------------------------------------------------------------------------
(* __main__: the telemetry *)

Digits == {"0", "1", "2", "3", "4", "5", "6", "7", "8", "9"}

RECURSIVE StripBlanks(_)
StripBlanks(s) ==
    IF s = <<>> THEN s
    ELSE IF Head(s) = " " THEN StripBlanks(Tail(s))
    ELSE IF s[Len(s)] = " " THEN StripBlanks(SubSeq(s, 1, Len(s) - 1))
    ELSE s

\* float(s) returns, on the characters the telemetry of the model uses:
\* blanks around a non-empty run of digits.
IsFloat(s) ==
    LET t == StripBlanks(s)
    IN  t # <<>> /\ \A i \in 1..Len(t) : t[i] \in Digits

\* float(pos[3][:13]) returns: there is a fourth field and it reads as a number.
LatencyComputes(fields) == Len(fields) >= 4 /\ IsFloat(Upto(fields[4], 13))

\* '{} {} {} '.format(*fields) followed by the time: one line of the history.
Sample(fields, t) == [x |-> fields[1], y |-> fields[2], z |-> fields[3], t |-> t]

\* ' ' in pos: a list holds an element ' ', or a string holds a blank.
SpaceInList(fields) == <<" ">> \in Range(fields)
SpaceInString(chunk) == Contains(<<" ">>, chunk)

\* The record carries the motion-stop marker: one of its comma-separated
\* fields is the single blank.
HasMarker(chunk) == <<" ">> \in Range(Split(chunk))

\* What conn.recv(1024).decode() returns in the model.
T_moving == <<"1", ",", "2", ",", "3", ",", "5">>
T_stopped == <<"1", ",", "2", ",", "3", ",", "5", ",", " ">>
T_blank == <<"1", ",", "2", ",", "3", ",", "5", " ">>
T_short == <<"1", ",", "2">>
T_three == <<"1", ",", "2", ",", "3">>
T_text == <<"1", ",", "2", ",", "3", ",", "x">>
Chunks == {T_moving, T_stopped, T_blank, T_short, T_three, T_text, <<>>}

-----------------------------------------------------------------------------
(* __main__: the session *)

I_delta1 == <<"d", "e", "l", "t", "a", " ", "X", "1">>
I_delta2 == <<"d", "e", "l", "t", "a", " ", "Y", "2">>
I_save == <<"s", "a", "v", "e", " ", "a">>
I_feedrate == <<"f", "e", "e", "d", "r", "a", "t", "e", " ", "3", "0">>
I_scan_a == <<"s", "c", "a", "n", "d", "x", "f", " ", "a", ".", "d", "x", "f">>
I_scan_b == <<"s", "c", "a", "n", "d", "x", "f", " ", "b", ".", "d", "x", "f">>
I_scan_m == <<"s", "c", "a", "n", "d", "x", "f", " ", "m", ".", "d", "x", "f">>
I_scan_v == <<"s", "c", "a", "n", "d", "x", "f", " ", "v", ".", "d", "x", "f">>
I_raw == <<"G", "0", " ", "X", "1">>
I_CLEAR == <<"C", "L", "E", "A", "R">>

\* What the operator types in the model.
Inputs == {<<>>, I_delta1, I_delta2, I_save, S_clear, I_feedrate,
           I_scan_a, I_scan_b, I_scan_m, I_scan_v, S_home, I_raw, I_CLEAR}

\* The drawings on disk when the session starts: a.dxf holds one segment,
\* b.dxf holds qty segments, v.dxf holds a value that is no number; m.dxf
\* does not exist.
Path_a == <<"a", ".", "d", "x", "f">>
Path_b == <<"b", ".", "d", "x", "f">>
Path_v == <<"v", ".", "d", "x", "f">>
Seg_a == [s |-> <<1000, 1000>>, e |-> <<1000, 1004>>]
Seg_b == [s |-> <<1000, 1004>>, e |-> <<0, 0>>]

SessionFiles ==
    [q \in {Path_a, Path_b, Path_v} |->
        [kind |-> "dxf",
         body |-> CASE q = Path_a -> Drawing(<<Seg_a>>, "plain")
                    [] q = Path_b -> Drawing([i \in 1..qty |-> IF i = 1 THEN Seg_a ELSE Seg_b],
                                             "padded")
                    [] q = Path_v -> Drawing(<<Seg_a>>, "badvalue")]]

Init ==
    /\ pc = "recv"
    /\ pos = <<>> /\ posIsList = FALSE
    /\ record = <<>> /\ check = 0
    /\ feedrate = S_600 /\ repeat = Zero
    /\ line = <<>> /\ sent = <<>> /\ awaiting = FALSE
    /\ errlog = <<>> /\ fs = SessionFiles /\ dxf = NoDxf
    /\ entities = <<>> /\ now = 1 /\ cycle = 0

\* Lines 257-269: the read at the top of the loop.
RecvMain ==
    /\ pc = "recv"
    /\ cycle < MaxCycles
    /\ \E chunk \in Chunks, t \in now..MaxClock :
        LET fields == Split(chunk)
        IN  /\ pos' = fields /\ posIsList' = TRUE
            /\ IF LatencyComputes(fields)
               THEN /\ record' = Append(record, Sample(fields, t))
                    /\ now' = t
                    /\ pc' = "input"
               ELSE /\ pc' = "crashed"
                    /\ UNCHANGED <<record, now>>
            /\ awaiting' = IF HasMarker(chunk) THEN FALSE ELSE awaiting
    /\ line' = <<>> /\ sent' = <<>> /\ dxf' = NoDxf
    /\ UNCHANGED <<check, feedrate, repeat, errlog, fs, entities, cycle>>

\* The new feedrate of the feedrate routine, line 296.
NewFeedrate(gcode, fr) == From(fr, 9)

\* The command the delta routine stores, line 277.
RepeatOfShifted(gcode) == S_G91_G0_ \o From(gcode, 5)
RepeatOf(gcode) == S_G91_G0_ \o From(gcode, 6)

\* The history the clear routine leaves, line 292.
ClearedKeepsLast(rec) == IF rec = <<>> THEN rec ELSE <<rec[Len(rec)]>>
Cleared(rec) == <<>>

\* Lines 276-296: the routines of the loop.  The value of gcode, repeat,
\* record, feedrate and the files after them.
Routines(g, rep, rec, fr, files) ==
    LET same == [gcode |-> g, repeat |-> rep, record |-> rec, feedrate |-> fr,
                 files |-> files]
        low == Lower(g)
        name0 == From(g, 5)
        name == IF Contains(S_txt, name0) THEN name0 ELSE name0 \o S_txt
    IN  IF Contains(S_delta, low) THEN [same EXCEPT !.repeat = RepeatOf(g)]
        ELSE IF g = <<>> /\ rep # Zero THEN [same EXCEPT !.gcode = rep]
        ELSE IF Contains(S_save, low)
             THEN [same EXCEPT !.gcode = name,
                               !.files = WriteFile(files, name, "log", rec)]
        ELSE IF g = S_clear THEN [same EXCEPT !.record = Cleared(rec)]
        ELSE IF Contains(S_feedrate, low)
             THEN [same EXCEPT !.feedrate = NewFeedrate(g, fr)]
        ELSE same

\* The loop test of line 307 on the list that the read at the top left in pos.
SkipsDrain(fields) == SpaceInList(fields)

\* Lines 299-302: the texts handed to conn.send for one command.  A send that
\* raises is logged; the command is handed over once whether or not it raises.
SendAttemptsRetry(text, delivered) ==
    IF delivered THEN <<text \o NL>> ELSE <<text \o NL, text \o NL>>
SendAttempts(text, delivered) == <<text \o NL>>

\* Lines 271-307: the operator's input, the routines, the send, and the test
\* that enters the drain loop or skips it.
Input ==
    /\ pc = "input"
    /\ cycle < MaxCycles
    /\ \E g \in Inputs, delivered \in BOOLEAN :
       \E r \in {Routines(g, repeat, record, feedrate, fs)} :
       \E c \in {Gcode(r.gcode, r.feedrate, r.files)} :
            /\ line' = g
            /\ cycle' = cycle + 1
            /\ repeat' = r.repeat
            /\ record' = r.record
            /\ feedrate' = r.feedrate
            /\ fs' = c.files
            /\ dxf' = c.locals
            /\ sent' = IF c.status = "ok" THEN SendAttempts(c.text, delivered) ELSE <<>>
            /\ errlog' = errlog \o c.logged
                   \o (IF c.status = "raise" THEN <<"ValueError">> ELSE <<>>)
                   \o (IF c.status = "ok" /\ ~delivered THEN <<"OSError">> ELSE <<>>)
            /\ awaiting' = IF c.status = "ok" /\ delivered /\ c.text # <<>>
                            THEN TRUE ELSE awaiting
            /\ pc' = IF c.status = "hang" THEN "hung"
                     ELSE IF SkipsDrain(pos) THEN "recv" ELSE "drain"
    /\ UNCHANGED <<pos, posIsList, check, entities, now>>

\* Lines 308-320 and the loop test of line 307 on the string just received.
DrainRecv ==
    /\ pc = "drain"
    /\ cycle < MaxCycles
    /\ \E chunk \in Chunks, t1 \in now..MaxClock :
       \E t2 \in t1..MaxClock :
        LET fields == Split(chunk)
            logs == check # t1 /\ check # 0
        IN  /\ pos' = chunk /\ posIsList' = FALSE
            /\ IF logs /\ Len(fields) < 3
               THEN /\ pc' = "crashed"
                    /\ now' = t1
                    /\ UNCHANGED <<record, check>>
               ELSE /\ record' = IF logs THEN Append(record, Sample(fields, check))
                                  ELSE record
                    /\ check' = t2
                    /\ now' = t2
                    /\ pc' = IF ~LatencyComputes(fields) THEN "crashed"
                             ELSE IF SpaceInString(chunk) THEN "recv" ELSE "drain"
            /\ awaiting' = IF HasMarker(chunk) THEN FALSE ELSE awaiting
    /\ UNCHANGED <<feedrate, repeat, line, sent, errlog, fs, dxf, entities, cycle>>

Next == RecvMain \/ Input \/ DrainRecv

Spec == Init /\ [][Next]_vars

-----------------------------------------------------------------------------
(* Properties of the converter *)

Origin == <<0, 0>>

NumEntities == Len(entities)

\* The end of the segment before segment i; the arrays hold 0 at index 0.
PrevEnd(es, i) == IF i = 1 THEN Origin ELSE es[i - 1].e

Bridged(es, i) == es[i].s # PrevEnd(es, i)

Target(m) == <<m.x, m.y>>

Rounded(pt) == <<Round2(pt[1]), Round2(pt[2])>>

\* The drawing holds valid entities only.
ValidDrawing ==
    \E v \in {"plain", "padded"} : fs[InPath].body = Drawing(entities, v)

\* No segment after the first starts where the one before it ends.
Unchained == \A i \in 2..NumEntities : entities[i].s # entities[i - 1].e

\* Every segment after the first starts where the one before it ends.
Chained == \A i \in 2..NumEntities : entities[i].s = entities[i - 1].e

\* Every entity of the drawing has a place in the arrays.
Fits == NumEntities <= qty - 1

Converted == pc = "compiled" /\ Exists(fs, OutPath)

Program == fs[OutPath].body

Targets == [i \in 1..Len(Program.moves) |-> Target(Program.moves[i])]

Noted == {i \in 1..Len(Program.moves) : Program.moves[i].f # <<>>}

\* The end points of the first k entities, each after its start point.
StartsAndEnds(k) ==
    Flatten([i \in 1..k |-> <<Rounded(entities[i].s), Rounded(entities[i].e)>>])

\* C6 as claimed: a valid drawing of N unchained segments that fit compiles
\* to the header and exactly 2N moves, a bridge and a draw per segment in
\* file order.
C6_AsClaimed ==
    (pc # "compile" /\ ValidDrawing /\ Unchained /\ Fits)
        => /\ Converted
           /\ Program.header = Header
           /\ Len(Program.moves) = 2 * NumEntities
           /\ Targets = StartsAndEnds(NumEntities)

\* C6: a valid drawing of N unchained segments that fit compiles to the
\* header and a bridge and a draw per segment in file order, except that the
\* first segment has no bridge when it starts at (0,0): 2N moves when the
\* first segment starts elsewhere, 2N-1 when it starts at (0,0).
C6_UnchainedMoves ==
    (pc # "compile" /\ ValidDrawing /\ Unchained /\ Fits)
        => /\ Converted
           /\ Program.header = Header
           /\ IF NumEntities > 0 /\ entities[1].s = Origin
              THEN /\ Len(Program.moves) = 2 * NumEntities - 1
                   /\ Targets = Tail(StartsAndEnds(NumEntities))
              ELSE /\ Len(Program.moves) = 2 * NumEntities
                   /\ Targets = StartsAndEnds(NumEntities)

C6_Witness ==
    /\ Converted /\ ValidDrawing /\ Unchained
    /\ NumEntities = qty - 1 /\ NumEntities >= 2
    /\ entities[1].s # Origin
    /\ Len(Program.moves) = 2 * NumEntities

\* C7 as claimed: a valid drawing of N >= 1 chained segments that fit
\* compiles to exactly N+1 moves, with the feedrate once, on the first move.
C7_AsClaimed ==
    (pc # "compile" /\ ValidDrawing /\ Chained /\ Fits /\ NumEntities >= 1)
        => /\ Converted
           /\ Len(Program.moves) = NumEntities + 1
           /\ Noted = {1}

\* C7: a valid drawing of N >= 1 chained segments that fit compiles to N
\* draw moves, after one bridge when the first segment does not start at
\* (0,0); the feedrate appears exactly once, on the first draw move, which
\* is the first move line only when there is no bridge.
C7_ChainedMoves ==
    (pc # "compile" /\ ValidDrawing /\ Chained /\ Fits /\ NumEntities >= 1)
        => /\ Converted
           /\ IF entities[1].s = Origin
              THEN Len(Program.moves) = NumEntities /\ Noted = {1}
              ELSE Len(Program.moves) = NumEntities + 1 /\ Noted = {2}

C7_Witness ==
    /\ Converted /\ ValidDrawing /\ Chained
    /\ NumEntities = qty - 1 /\ NumEntities >= 2
    /\ entities[1].s # Origin
    /\ Len(Program.moves) = NumEntities + 1 /\ Noted = {2}

\* The moves of the first k entities of the drawing, in file order: a bridge
\* to each start that is not the end before it, a draw to each end, the
\* feedrate on the first draw and on each draw after a bridge.
MovesOf(k, fr) ==
    Flatten([i \in 1..k |->
        (IF Bridged(entities, i)
         THEN <<Move(entities[i].s[1], entities[i].s[2], <<>>)>> ELSE <<>>)
        \o <<Move(entities[i].e[1], entities[i].e[2],
                  IF Bridged(entities, i) \/ i = 1 THEN <<fr>> ELSE <<>>)>>])

\* The converter read the drawing up to the end of entity k and no further.
ReadUpTo(k) ==
    \E v \in {"plain", "padded"} :
        LET d == Drawing(SubSeq(entities, 1, k), v)
        IN  /\ dxf.n = Len(d) - Len(Trailer(v))
            /\ SubSeq(fs[InPath].body, 1, dxf.n) = SubSeq(d, 1, dxf.n)

\* C8: a drawing with one entity more than qty (or than the qty-1 places
\* the arrays offer) makes the converter stop reading after entity qty-1,
\* record the capacity error, and still write a program holding the moves of
\* entities 1..qty-1 only, in file order.
C8_CapacityTruncates ==
    (pc # "compile" /\ NumEntities \in {qty, qty + 1})
        => /\ Converted
           /\ dxf.mode = "done"
           /\ dxf.error = CapacityMsg
           /\ dxf.linecount = qty
           /\ ReadUpTo(qty - 1)
           /\ Program = [header |-> Header, moves |-> MovesOf(qty - 1, feedrate)]

C8_Witness ==
    /\ Converted /\ NumEntities = qty + 1
    /\ dxf.error = CapacityMsg
    /\ Len(Program.moves) >= qty - 1
    /\ entities[qty].s # entities[qty - 1].e

-----------------------------------------------------------------------------
(* Properties of the session *)

\* The step reads the operator's input (the action Input).
ReadsInput == cycle' = cycle + 1

\* The program is in its loop: it neither crashed nor hangs in a routine.
InLoop(p) == p \in {"recv", "drain"}

\* The input is the keyword, a blank and an argument.
IsDirective(keyword, g) == Lower(Upto(g, Len(keyword) + 1)) = keyword \o <<" ">>

Argument(keyword, g) == From(g, Len(keyword) + 1)

\* No conn.send has raised so far.
NoSendFailed == "OSError" \notin Range(errlog)

IsPrefix(a, b) == Len(a) <= Len(b) /\ SubSeq(b, 1, Len(a)) = a

\* C1 as claimed: the program is about to read the operator's input only
\* when no command is outstanding, that is when a record with the
\* motion-stop marker was received after the latest command was sent.
C1_AsClaimed == (pc = "input") => ~awaiting

\* C2 as claimed: on a delta, save, clear or feedrate directive nothing is
\* handed to conn.send in that cycle.
C2_AsClaimed ==
    (/\ \/ IsDirective(S_delta, line) \/ IsDirective(S_save, line)
        \/ line = S_clear \/ IsDirective(S_feedrate, line)
     /\ NoSendFailed)
        => sent = <<>>

\* C3 as claimed: the stored feedrate is '600' until a feedrate directive is
\* read, and after a feedrate directive it is the value the directive gave.
C3_AsClaimed ==
    /\ (cycle = 0 => feedrate = S_600)
    /\ (IsDirective(S_feedrate, line) /\ NoSendFailed)
            => feedrate = Argument(S_feedrate, line)

\* C4: a delta directive stores the relative move built from its increment
\* expression; no other step changes the stored command; an empty input
\* hands the stored command to conn.send, and before any delta it hands over
\* the empty line and stores nothing.
C4_RepeatReplayed ==
    [][/\ (ReadsInput /\ IsDirective(S_delta, line'))
            => repeat' = S_G91_G0_ \o Argument(S_delta, line')
       /\ ~(ReadsInput /\ IsDirective(S_delta, line')) => repeat' = repeat
       /\ (ReadsInput /\ line' = <<>> /\ repeat # Zero)
            => sent' = <<repeat \o NL>>
       /\ (ReadsInput /\ line' = <<>> /\ repeat = Zero)
            => sent' = <<NL>>
      ]_vars

C4_Witness ==
    /\ line = <<>> /\ cycle = 2
    /\ repeat = S_G91_G0_ \o Argument(S_delta, I_delta2)
    /\ sent = <<repeat \o NL>>

\* C5: a step that reads the input 'clear' leaves the history empty; every
\* other step leaves the old history as a prefix of the new one.
C5_AppendOnly ==
    [][IF ReadsInput /\ line' = S_clear
       THEN record' = <<>>
       ELSE IsPrefix(record, record')]_vars

\* The history was cleared in this cycle and the drain loop has added a
\* sample since.
C5_Witness == line = S_clear /\ Len(record) = 1 /\ pc = "drain"

\* C9: on scandxf with a path that cannot be opened the error is logged,
\* dxf_to_gcode is not called, no file is written, 'G0' is handed to
\* conn.send, feedrate, repeat and the history are unchanged, and the loop
\* goes on.
C9_MissingFile ==
    [][(ReadsInput /\ IsDirective(S_scandxf, line')
          /\ ~Exists(fs, Argument(S_scandxf, line')))
        => /\ IsPrefix(errlog \o <<"FileNotFoundError">>, errlog')
           /\ dxf' = NoDxf
           /\ fs' = fs
           /\ sent' = <<S_G0 \o NL>>
           /\ feedrate' = feedrate /\ repeat' = repeat /\ record' = record
           /\ InLoop(pc')
      ]_vars

C9_Witness ==
    /\ line = I_scan_m /\ sent = <<S_G0 \o NL>>
    /\ "FileNotFoundError" \in Range(errlog)
    /\ pc = "drain"

\* dxf_to_gcode met an error in this cycle: the arrays ran out or a value
\* could not be read.
CompileError == dxf # NoDxf /\ (dxf.error # "" \/ dxf.mode = "raise")

\* The file of the scandxf directive of this cycle could not be opened.
FileError ==
    /\ IsDirective(S_scandxf, line) /\ dxf = NoDxf
    /\ ~Exists(fs, Argument(S_scandxf, line))

\* C10 as claimed: in a cycle in which scandxf met a file error or a compile
\* error, the error log holds an entry for it and 'G0' is what is handed to
\* conn.send.
C10_AsClaimed ==
    (IsDirective(S_scandxf, line) /\ (FileError \/ CompileError) /\ NoSendFailed)
        => /\ errlog # <<>>
           /\ sent = <<S_G0 \o NL>>

\* The step reads the operator's input and its conn.send raises.
SendFails ==
    /\ ReadsInput
    /\ Len(errlog') > Len(errlog)
    /\ errlog'[Len(errlog')] = "OSError"

\* C11: when conn.send raises, the failure is appended to the error log, the
\* command was handed to conn.send once, feedrate, repeat and the history are
\* what the routines left (which does not depend on the send), and the
\* program goes on to the loop test of the drain.
C11_SendFailure ==
    [][SendFails =>
        \E r \in {Routines(line', repeat, record, feedrate, fs)} :
        \E c \in {Gcode(r.gcode, r.feedrate, r.files)} :
            /\ errlog' = errlog \o c.logged \o <<"OSError">>
            /\ sent' = <<c.text \o NL>>
            /\ feedrate' = r.feedrate /\ repeat' = r.repeat /\ record' = r.record
            /\ fs' = c.files
            /\ pc' = IF SkipsDrain(pos) THEN "recv" ELSE "drain"
      ]_vars

\* The send of a delta directive raised, and the drain loop has received a
\* record since.
C11_Witness ==
    /\ line = I_delta1 /\ errlog = <<"OSError">>
    /\ repeat = RepeatOf(I_delta1)
    /\ sent = <<I_delta1 \o NL>>
    /\ pc = "drain" /\ ~posIsList

\* conn.recv last returned the chunk c.
LastReceived(c) == IF posIsList THEN pos = Split(c) ELSE pos = c

\* The chunk is the first part of the record '1,2,3,5' and not all of it: what
\* a read returns when the record arrives in two parts.
Fragment(c) == c # <<>> /\ Len(c) < Len(T_moving) /\ IsPrefix(c, T_moving)

\* C12 as claimed: when a read returns only the first part of a record, the
\* program keeps it until the rest arrives; it does not take the part for a
\* record and fail on it.
C12_AsClaimed ==
    (\E c \in Chunks : Fragment(c) /\ LastReceived(c)) => pc # "crashed"

\* The record has fewer than four fields, or its fourth field is no number.
Malformed(c) == ~LatencyComputes(Split(c))

\* C13 as claimed: a malformed record, read at the top of the loop or in the
\* drain loop, does not end the program with an uncaught exception.
C13_AsClaimed ==
    \A c \in Chunks : (Malformed(c) /\ LastReceived(c)) => InLoop(pc) \/ pc = "input"

\* C14 as claimed, for the keyword clear: an input that is 'clear' in any
\* letter case empties the history, as the input 'clear' does.  (The input of
\* this cycle was read and the drain loop has received no record since.)
C14_AsClaimed ==
    (Lower(line) = S_clear /\ posIsList) => record = <<>>

\* The step is a pass of the drain loop that appends to the history.
DrainAppends == pc = "drain" /\ Len(record') = Len(record) + 1

\* C15 as claimed: the entry a pass of the drain loop appends holds the
\* position of the record just received and that record's own receipt time:
\* a time read from the clock in this pass, which differs from the time of
\* the drain record before it (check).
C15_AsClaimed ==
    [][(DrainAppends /\ NoSendFailed /\ InLoop(pc')) =>
        LET entry == record'[Len(record')]
        IN  /\ \E c \in Chunks :
                  /\ pos' = c
                  /\ Len(Split(c)) >= 3
                  /\ entry = Sample(Split(c), entry.t)
            /\ now <= entry.t /\ entry.t <= now'
            /\ entry.t # check
      ]_vars

\* The last step was a pass of the drain loop that raised nothing: pos holds
\* the record it received.
AfterDrainPass == cycle >= 1 /\ ~posIsList /\ InLoop(pc)

\* C16 as claimed: a pass of the drain loop leaves the loop exactly when one
\* of the comma-separated fields of the record it received is the single
\* blank, the test that line 307 makes on the record read at the top.
C16_AsClaimed ==
    (AfterDrainPass /\ NoSendFailed) => ((pc = "recv") <=> HasMarker(pos))

-----------------------------------------------------------------------------
(* Further properties of the converter *)

\* The targets of the draw moves of the first k entities.
Ends(k) == [i \in 1..k |-> Rounded(entities[i].e)]

\* C17: the program of a valid drawing that fits starts with a bridge to the
\* start of the first segment exactly when that start is not (0,0), and the
\* first draw move carries the feedrate; a chained drawing of N segments
\* whose first segment starts at (0,0) compiles to the header and exactly N
\* draw moves, the feedrate on the first of them only.
C17_FirstSegment ==
    (pc # "compile" /\ ValidDrawing /\ Fits /\ NumEntities >= 1)
        => /\ Converted
           /\ Program.header = Header
           /\ IF entities[1].s # Origin
              THEN /\ Len(Program.moves) >= 2
                   /\ Program.moves[1] = Move(entities[1].s[1], entities[1].s[2], <<>>)
                   /\ Program.moves[2] =
                         Move(entities[1].e[1], entities[1].e[2], <<feedrate>>)
              ELSE /\ Program.moves[1] =
                         Move(entities[1].e[1], entities[1].e[2], <<feedrate>>)
                   /\ Chained => /\ Len(Program.moves) = NumEntities
                                 /\ Targets = Ends(NumEntities)
                                 /\ Noted = {1}

C17_Witness ==
    /\ Converted /\ ValidDrawing /\ Chained
    /\ NumEntities = qty - 1 /\ NumEntities >= 2
    /\ entities[1].s = Origin
    /\ Len(Program.moves) = NumEntities /\ Noted = {1}

SetMax(S) == CHOOSE v \in S : \A w \in S : w <= v
SetMin(S) == CHOOSE v \in S : \A w \in S : v <= w

\* The X (c = 1) or Y (c = 2) coordinates of the start and end points of the
\* first k entities.
CoordsOf(k, c) ==
    {entities[i].s[c] : i \in 1..k} \cup {entities[i].e[c] : i \in 1..k}

\* The number of segments the converter parsed.
Parsed == dxf.linecount - 1

\* C18 as claimed: after parsing at least one segment, xmin, xmax, ymin and
\* ymax are the least and greatest coordinates among the start and end
\* points of the parsed segments.
C18_AsClaimed ==
    (pc = "compiled" /\ ValidDrawing /\ Parsed >= 1)
        => /\ dxf.xmin = SetMin(CoordsOf(Parsed, 1))
           /\ dxf.xmax = SetMax(CoordsOf(Parsed, 1))
           /\ dxf.ymin = SetMin(CoordsOf(Parsed, 2))
           /\ dxf.ymax = SetMax(CoordsOf(Parsed, 2))

\* C19 as claimed: when every entity of a valid drawing is in the program,
\* the converter has recorded no capacity error.
C19_AsClaimed ==
    (/\ pc = "compiled" /\ ValidDrawing
     /\ Parsed = NumEntities
     /\ Program.moves = MovesOf(NumEntities, feedrate))
        => dxf.error = ""

\* C20 as claimed: whatever lines the drawing holds, unless a value cannot
\* be read as a number, the read loop is left and the program file written.
C20_AsClaimed ==
    (pc # "compile" /\ dxf.mode # "raise") => (dxf.mode = "done" /\ Converted)

====
